---- MODULE Spec2Model ----
(***************************************************************************)
(* gen-from: the project generator of cli.ts (the current source is the    *)
(* listing that starts at line 110 of src/README.md).                      *)
(*                                                                         *)
(* A string is a sequence of text fragments ("atoms"): a placeholder key,  *)
(* a piece of an answer, a delimiter.  A path is a sequence of names and a *)
(* name is a string, with "." an atom of its own.                          *)
(***************************************************************************)
EXTENDS Integers, Sequences, FiniteSets, TLC

(***************************************************************************)
(* Bounds of the model.                                                    *)
(***************************************************************************)
MaxFiles == 2
MaxRuns == 2
MaxEntries == 2

(***************************************************************************)
(* Strings.                                                                *)
(***************************************************************************)
Last(s) == s[Len(s)]

RECURSIVE Flatten(_)
Flatten(ss) == IF ss = <<>> THEN <<>> ELSE Head(ss) \o Flatten(Tail(ss))

\* the atoms that have upper-case letters, and their lower-case forms
LowerAtom(a) ==
    CASE a = "PNG" -> "png"
      [] a = "App" -> "app"
      [] a = "PROJECT_NAME" -> "project_name"
      [] a = "USERNAME" -> "username"
      [] a = "AUTHOR_NAME" -> "author_name"
      [] a = "PACKAGE_NAME" -> "package_name"
      [] OTHER -> a

toLowerCase(s) == [i \in 1..Len(s) |-> LowerAtom(s[i])]

\* String.prototype.trim: leading and trailing blanks go
RECURSIVE trimStart(_)
trimStart(s) == IF s # <<>> /\ Head(s) = " " THEN trimStart(Tail(s)) ELSE s

RECURSIVE trimEnd(_)
trimEnd(s) == IF s # <<>> /\ Last(s) = " " THEN trimEnd(SubSeq(s, 1, Len(s) - 1)) ELSE s

trim(s) == trimEnd(trimStart(s))

\* key occurs in s at position i
MatchAt(s, key, i) ==
    /\ i + Len(key) - 1 <= Len(s)
    /\ \A j \in 1..Len(key) : s[i + j - 1] = key[j]

\* String.prototype.includes
includes(s, key) == \E i \in 1..Len(s) : MatchAt(s, key, i)

\* the replacement patterns of String.prototype.replace: $& is the match
Expand(value, key) ==
    Flatten([i \in 1..Len(value) |-> IF value[i] = "$&" THEN key ELSE <<value[i]>>])

\* content.match(new RegExp(escaped key, 'g')): the matches, left to right,
\* not overlapping
RECURSIVE matchCount(_, _, _)
matchCount(s, key, i) ==
    IF i > Len(s) THEN 0
    ELSE IF MatchAt(s, key, i) THEN 1 + matchCount(s, key, i + Len(key))
    ELSE matchCount(s, key, i + 1)

\* content.replace(new RegExp(escaped key, 'g'), value)
RECURSIVE replaceFrom(_, _, _, _)
replaceFrom(s, key, value, i) ==
    IF i > Len(s) THEN <<>>
    ELSE IF MatchAt(s, key, i)
         THEN Expand(value, key) \o replaceFrom(s, key, value, i + Len(key))
    ELSE <<s[i]>> \o replaceFrom(s, key, value, i + 1)

replaceAll(s, key, value) == replaceFrom(s, key, value, 1)

(***************************************************************************)
(* Paths and the binary classifier.                                        *)
(***************************************************************************)
basename(filePath) == Last(filePath)

\* index of the last "." of a name, 0 when there is none
RECURSIVE lastDot(_, _)
lastDot(name, i) ==
    IF i = 0 THEN 0 ELSE IF name[i] = "." THEN i ELSE lastDot(name, i - 1)

\* the extension taken from the first "." of the base name on
extnameFromFirstDot(filePath) ==
    LET name == basename(filePath)
        dots == { i \in 2..Len(name) : name[i] = "." }
    IN  IF dots = {} THEN <<>>
        ELSE SubSeq(name, CHOOSE i \in dots : \A j \in dots : i <= j, Len(name))

\* path.extname: from the last "." of the base name to its end; empty when
\* there is no "." or the name starts with its only "."
extname(filePath) ==
    LET name == basename(filePath)
        d == lastDot(name, Len(name))
    IN  IF d <= 1 THEN <<>> ELSE SubSeq(name, d, Len(name))

binaryExtensions ==
    { <<".", e>> : e \in {"png", "jpg", "jpeg", "gif", "ico", "svg",
                          "pdf", "zip", "tar", "gz", "7z",
                          "exe", "dll", "so", "dylib",
                          "woff", "woff2", "ttf", "otf"} }

isBinaryFileCaseSensitive(filePath) == extname(filePath) \in binaryExtensions

isBinaryFile(filePath) == toLowerCase(extname(filePath)) \in binaryExtensions

PackageJsonName == <<"package", ".", "json">>

isPackageJson(filePath) == basename(filePath) = PackageJsonName

(***************************************************************************)
(* UserInputs: an object whose keys keep their insertion order, as a       *)
(* sequence of [key, value].                                               *)
(***************************************************************************)
PROJECT_NAME == <<"PROJECT_NAME">>
PACKAGE_NAME == <<"PACKAGE_NAME">>
USERNAME == <<"USERNAME">>
AUTHOR_NAME == <<"AUTHOR_NAME">>

hasKey(userInputs, key) == \E i \in 1..Len(userInputs) : userInputs[i].key = key

\* userInputs[key], the empty string standing for undefined where only the
\* truth value is used
valueOf(userInputs, key) ==
    IF hasKey(userInputs, key)
    THEN userInputs[CHOOSE i \in 1..Len(userInputs) : userInputs[i].key = key].value
    ELSE <<>>

\* the truth value of userInputs[key]: defined and not the empty string
given(userInputs, key) == valueOf(userInputs, key) # <<>>

\* userInputs[key] = value: in place when the key exists, appended otherwise
setKey(userInputs, key, value) ==
    IF hasKey(userInputs, key)
    THEN [i \in 1..Len(userInputs) |->
             IF userInputs[i].key = key THEN [key |-> key, value |-> value]
             ELSE userInputs[i]]
    ELSE Append(userInputs, [key |-> key, value |-> value])

(***************************************************************************)
(* The parsed package.json.  A JSON value is absent, a string, an object   *)
(* with the optional sub-fields name, url and one other, or an array of    *)
(* strings; an optional sub-field is a sequence of zero or one string.     *)
(***************************************************************************)
Absent == [t |-> "absent", s |-> <<>>, name |-> <<>>, url |-> <<>>, other |-> <<>>, items |-> <<>>]
StrV(s) == [Absent EXCEPT !.t = "str", !.s = s]
ObjV(name, url, other) == [Absent EXCEPT !.t = "obj", !.name = name, !.url = url, !.other = other]
ArrV(items) == [Absent EXCEPT !.t = "arr", !.items = items]

DocFields == {"name", "author", "repository", "bugs", "homepage", "keywords", "description"}

EmptyDoc == [f \in DocFields |-> Absent]

\* the truth value of a JSON value and of an optional sub-field
truthy(v) == v.t \in {"obj", "arr"} \/ (v.t = "str" /\ v.s # <<>>)
truthyOpt(o) == o # <<>> /\ o[1] # <<>>

githubUser(userInputs) == <<"https://github.com/">> \o valueOf(userInputs, USERNAME)

githubRepo(userInputs) ==
    githubUser(userInputs) \o <<"/">> \o valueOf(userInputs, PROJECT_NAME)

\* [...new Set(items)]: the first occurrence of each entry, in order
RECURSIVE dedupe(_, _)
dedupe(items, seen) ==
    IF items = <<>> THEN <<>>
    ELSE IF Head(items) \in seen THEN dedupe(Tail(items), seen)
    ELSE <<Head(items)>> \o dedupe(Tail(items), seen \cup {Head(items)})

\* Each update gives the new value of the field and whether hasChanges is set.
nameUpdate(v, userInputs) ==
    IF given(userInputs, PACKAGE_NAME)
    THEN [v |-> StrV(valueOf(userInputs, PACKAGE_NAME)), changed |-> TRUE]
    ELSE [v |-> v, changed |-> FALSE]

\* the author replaced as a whole by USERNAME, whatever its shape
authorUpdateWhole(v, userInputs) ==
    IF truthy(v) /\ given(userInputs, USERNAME)
    THEN [v |-> StrV(valueOf(userInputs, USERNAME)), changed |-> TRUE]
    ELSE [v |-> v, changed |-> FALSE]

authorUpdate(v, userInputs) ==
    IF truthy(v) /\ v.t \in {"obj", "arr"}
    THEN LET setName == given(userInputs, AUTHOR_NAME) /\ truthyOpt(v.name)
             setUrl == given(userInputs, USERNAME) /\ truthyOpt(v.url)
         IN  [v |-> [v EXCEPT
                       !.name = IF setName THEN <<valueOf(userInputs, AUTHOR_NAME)>> ELSE @,
                       !.url = IF setUrl THEN <<githubUser(userInputs)>> ELSE @],
              changed |-> setName \/ setUrl]
    ELSE IF truthy(v) /\ v.t = "str" /\ given(userInputs, AUTHOR_NAME)
    THEN [v |-> StrV(valueOf(userInputs, AUTHOR_NAME)), changed |-> TRUE]
    ELSE [v |-> v, changed |-> FALSE]

\* hasChanges set as soon as the field and the two inputs are there
urlFieldUpdateFlags(v, userInputs, suffix) ==
    IF truthy(v) /\ given(userInputs, USERNAME) /\ given(userInputs, PROJECT_NAME)
    THEN [v |-> IF v.t = "str" THEN StrV(githubRepo(userInputs) \o suffix)
                ELSE IF truthyOpt(v.url)
                THEN [v EXCEPT !.url = <<githubRepo(userInputs) \o suffix>>]
                ELSE v,
          changed |-> TRUE]
    ELSE [v |-> v, changed |-> FALSE]

\* repository (suffix empty) and bugs (suffix /issues)
urlFieldUpdate(v, userInputs, suffix) ==
    IF truthy(v) /\ given(userInputs, USERNAME) /\ given(userInputs, PROJECT_NAME)
    THEN IF v.t = "str"
         THEN [v |-> StrV(githubRepo(userInputs) \o suffix), changed |-> TRUE]
         ELSE IF truthyOpt(v.url)
         THEN [v |-> [v EXCEPT !.url = <<githubRepo(userInputs) \o suffix>>], changed |-> TRUE]
         ELSE [v |-> v, changed |-> FALSE]
    ELSE [v |-> v, changed |-> FALSE]

\* the homepage set whether or not the document had one
homepageUpdateAlways(v, userInputs) ==
    IF given(userInputs, USERNAME) /\ given(userInputs, PROJECT_NAME)
    THEN [v |-> StrV(githubRepo(userInputs)), changed |-> TRUE]
    ELSE [v |-> v, changed |-> FALSE]

homepageUpdate(v, userInputs) ==
    IF truthy(v) /\ given(userInputs, USERNAME) /\ given(userInputs, PROJECT_NAME)
    THEN [v |-> StrV(githubRepo(userInputs)), changed |-> TRUE]
    ELSE [v |-> v, changed |-> FALSE]

newKeywords(userInputs) ==
    << <<"typescript">>, <<"javascript">>,
       toLowerCase(valueOf(userInputs, PROJECT_NAME)), <<"utility">> >>

\* the keywords replaced by the generated ones
keywordsUpdateReplace(v, userInputs) ==
    IF v.t = "arr" /\ given(userInputs, PROJECT_NAME)
    THEN [v |-> ArrV(newKeywords(userInputs)), changed |-> TRUE]
    ELSE [v |-> v, changed |-> FALSE]

keywordsUpdate(v, userInputs) ==
    IF v.t = "arr" /\ given(userInputs, PROJECT_NAME)
    THEN [v |-> ArrV(dedupe(v.items \o newKeywords(userInputs), {})), changed |-> TRUE]
    ELSE [v |-> v, changed |-> FALSE]

\* the special handling of package.json, from the parsed document to the
\* document that is serialised when hasChanges is set
updatePackageJson(doc, userInputs) ==
    LET n == nameUpdate(doc.name, userInputs)
        a == authorUpdate(doc.author, userInputs)
        r == urlFieldUpdate(doc.repository, userInputs, <<>>)
        b == urlFieldUpdate(doc.bugs, userInputs, <<"/issues">>)
        h == homepageUpdate(doc.homepage, userInputs)
        k == keywordsUpdate(doc.keywords, userInputs)
    IN  [doc |-> [doc EXCEPT !.name = n.v, !.author = a.v, !.repository = r.v,
                              !.bugs = b.v, !.homepage = h.v, !.keywords = k.v],
         hasChanges |-> n.changed \/ a.changed \/ r.changed \/ b.changed
                          \/ h.changed \/ k.changed]

(***************************************************************************)
(* File content.  The content of a file is text, or (json) the text of a   *)
(* JSON document: the document it parses to and whether the text is the    *)
(* 2-space layout JSON.stringify(doc, null, 2) gives.  Keys and values are *)
(* taken to hold no character of the JSON syntax, so a match never leaves  *)
(* a string of the document.  A package.json that does not parse, or that  *)
(* parses to null or to a primitive (the first field access throws inside  *)
(* the inner try), is text.                                                *)
(***************************************************************************)
Text(s) == [json |-> FALSE, pretty |-> FALSE, text |-> s, doc |-> EmptyDoc]
Json(doc, pretty) == [json |-> TRUE, pretty |-> pretty, text |-> <<>>, doc |-> doc]

\* JSON.stringify(packageJson, null, 2)
stringify(doc) == Json(doc, TRUE)

\* the strings of a JSON value, in document order
stringsOf(v) ==
    CASE v.t = "str" -> <<v.s>>
      [] v.t = "obj" -> v.name \o v.url \o v.other
      [] v.t = "arr" -> v.items
      [] OTHER -> <<>>

mapValue(v, key, value) ==
    LET R(s) == replaceAll(s, key, value)
        RS(ss) == [i \in 1..Len(ss) |-> R(ss[i])]
    IN  [v EXCEPT !.s = R(@), !.name = RS(@), !.url = RS(@), !.other = RS(@),
                  !.items = RS(@)]

FieldOrder == <<"name", "author", "repository", "bugs", "homepage", "keywords", "description">>

stringsOfContent(content) ==
    IF content.json
    THEN Flatten([i \in 1..Len(FieldOrder) |-> stringsOf(content.doc[FieldOrder[i]])])
    ELSE <<content.text>>

RECURSIVE sumCounts(_, _)
sumCounts(ss, key) ==
    IF ss = <<>> THEN 0 ELSE matchCount(Head(ss), key, 1) + sumCounts(Tail(ss), key)

\* (content.match(...) || []).length
occurrences(content, key) == sumCounts(stringsOfContent(content), key)

contentIncludes(content, key) ==
    \E i \in 1..Len(stringsOfContent(content)) : includes(stringsOfContent(content)[i], key)

contentReplace(content, key, value) ==
    IF content.json
    THEN [content EXCEPT !.doc = [f \in DocFields |-> mapValue(content.doc[f], key, value)]]
    ELSE [content EXCEPT !.text = replaceAll(content.text, key, value)]

\* how many matches content.replace(new RegExp(escaped key, 'g'), value)
\* replaces, in one string and in a content
RECURSIVE replacedFrom(_, _, _)
replacedFrom(s, key, i) ==
    IF i > Len(s) THEN 0
    ELSE IF MatchAt(s, key, i) THEN 1 + replacedFrom(s, key, i + Len(key))
    ELSE replacedFrom(s, key, i + 1)

RECURSIVE sumReplaced(_, _)
sumReplaced(ss, key) ==
    IF ss = <<>> THEN 0 ELSE replacedFrom(Head(ss), key, 1) + sumReplaced(Tail(ss), key)

replacedIn(content, key) == sumReplaced(stringsOfContent(content), key)

(***************************************************************************)
(* The directory tree and the disk.  An entry of a directory is            *)
(* [name, isDir, kids]; the disk maps the path of each file to             *)
(* [content, readable, writable] (readFile, writeFile reject when not).    *)
(***************************************************************************)
File(name) == [name |-> name, isDir |-> FALSE, kids |-> <<>>]
Dir(name, kids) == [name |-> name, isDir |-> TRUE, kids |-> kids]

NodeModules == <<"node_modules">>
DotGit == <<".", "git">>

\* the directories scan does not enter
excluded(name) == name = NodeModules \/ name = DotGit

\* the item is a directory that scan enters
descends(item) == item.isDir /\ ~excluded(item.name)

\* the item is pushed to files: the names are tested before stat, or after
pushedUnlessExcluded(item) == ~item.isDir /\ ~excluded(item.name)
pushed(item) == ~item.isDir

\* scan(currentDir) over the items readdir gave, from item i on
RECURSIVE scan(_, _, _)
scan(currentDir, items, i) ==
    IF i > Len(items) THEN <<>>
    ELSE LET item == items[i]
             fullPath == Append(currentDir, item.name)
         IN  (IF descends(item) THEN scan(fullPath, item.kids, 1)
              ELSE IF pushed(item) THEN <<fullPath>>
              ELSE <<>>) \o scan(currentDir, items, i + 1)

getAllFiles(dir, items) == scan(dir, items, 1)

\* every file path of a tree, excluded directories included
RECURSIVE allPaths(_, _, _)
allPaths(currentDir, items, i) ==
    IF i > Len(items) THEN {}
    ELSE LET item == items[i]
             fullPath == Append(currentDir, item.name)
         IN  (IF item.isDir THEN allPaths(fullPath, item.kids, 1) ELSE {fullPath})
             \cup allPaths(currentDir, items, i + 1)

(***************************************************************************)
(* processFiles, first pass: the occurrences of one file added to the      *)
(* statistics; placeholderStats is parallel to userInputs.                 *)
(***************************************************************************)
initStats(userInputs) ==
    [i \in 1..Len(userInputs) |->
        [key |-> userInputs[i].key, count |-> 0, replacement |-> userInputs[i].value]]

\* the catch of the first pass: the file is skipped, nothing is thrown on
scanCatch(failed) == FALSE

\* [stats, read, threw] of the first pass on one file
scanFile(filePath, file, stats) ==
    IF isBinaryFile(filePath) THEN [stats |-> stats, read |-> FALSE, threw |-> FALSE]
    ELSE IF ~file.readable
    THEN [stats |-> stats, read |-> TRUE, threw |-> scanCatch(TRUE)]
    ELSE [stats |-> [i \in 1..Len(stats) |->
                        [stats[i] EXCEPT !.count = @ + occurrences(file.content, stats[i].key)]],
          read |-> TRUE, threw |-> FALSE]

\* the summary: hasReplacements
anyCount(stats) == \E i \in 1..Len(stats) : stats[i].count > 0

(***************************************************************************)
(* processFile.                                                            *)
(***************************************************************************)
\* the loop of the standard string replacement, from entry i of userInputs
RECURSIVE replaceKeys(_, _, _, _)
replaceKeys(content, hasChanges, userInputs, i) ==
    IF i > Len(userInputs) THEN [content |-> content, hasChanges |-> hasChanges]
    ELSE IF contentIncludes(content, userInputs[i].key)
    THEN replaceKeys(contentReplace(content, userInputs[i].key, userInputs[i].value),
                     TRUE, userInputs, i + 1)
    ELSE replaceKeys(content, hasChanges, userInputs, i + 1)

\* the matches each turn of that loop replaces, parallel to userInputs
RECURSIVE replaceCounts(_, _, _)
replaceCounts(content, userInputs, i) ==
    IF i > Len(userInputs) THEN <<>>
    ELSE IF contentIncludes(content, userInputs[i].key)
    THEN <<replacedIn(content, userInputs[i].key)>>
         \o replaceCounts(contentReplace(content, userInputs[i].key, userInputs[i].value),
                          userInputs, i + 1)
    ELSE <<0>> \o replaceCounts(content, userInputs, i + 1)

\* the inner catch of processFile, around the special handling: a warning,
\* and the standard string replacement goes on with the content as read
parseCatchRethrow(failed) == failed
parseCatch(failed) == FALSE

\* the catch of processFile: a warning and the result false, nothing thrown on
processFileCatchRethrow(failed) == failed
processFileCatch(failed) == FALSE

\* whether processFile writes: the flag hasChanges
shouldWrite(hasChanges, before, after) == hasChanges

\* what processFile does to one file: readFile called (read), the content
\* after the special handling (structured) and after the standard string
\* replacement (content), the matches replaced for each key (replaced),
\* writeFile called (writeCalled) and done (written), the warnings, the
\* result (modified) and whether an exception leaves processFile
processFile(filePath, file, userInputs) ==
    LET none == [read |-> FALSE, content |-> file.content, structured |-> file.content,
                 replaced |-> [i \in 1..Len(userInputs) |-> 0], writeCalled |-> FALSE,
                 written |-> FALSE, warned |-> FALSE, parseWarned |-> FALSE,
                 modified |-> FALSE, threw |-> FALSE]
    IN
    IF isBinaryFile(filePath) THEN none
    ELSE IF ~file.readable
    THEN [none EXCEPT !.read = TRUE, !.warned = TRUE, !.threw = processFileCatch(TRUE)]
    ELSE IF isPackageJson(filePath) /\ ~file.content.json /\ parseCatch(TRUE)
    THEN [none EXCEPT !.read = TRUE, !.warned = TRUE, !.threw = processFileCatch(TRUE)]
    ELSE
    LET parsed == isPackageJson(filePath) /\ file.content.json
        special == IF parsed THEN updatePackageJson(file.content.doc, userInputs)
                   ELSE [doc |-> file.content.doc, hasChanges |-> FALSE]
        content1 == IF special.hasChanges THEN stringify(special.doc) ELSE file.content
        g == replaceKeys(content1, special.hasChanges, userInputs, 1)
        write == shouldWrite(g.hasChanges, file.content, g.content)
    IN  [read |-> TRUE,
         content |-> g.content,
         structured |-> content1,
         replaced |-> replaceCounts(content1, userInputs, 1),
         writeCalled |-> write,
         written |-> write /\ file.writable,
         warned |-> write /\ ~file.writable,
         parseWarned |-> isPackageJson(filePath) /\ ~file.content.json,
         modified |-> IF write /\ ~file.writable THEN FALSE ELSE g.hasChanges,
         threw |-> IF write /\ ~file.writable THEN processFileCatch(TRUE) ELSE FALSE]

(***************************************************************************)
(* The state of a run.                                                     *)
(***************************************************************************)
VARIABLES
    pc,               \* the statement main (or processFiles) is at
    exitCode,         \* the exit code of the process, -1 while it runs
    args,             \* process.argv.slice(2)
    config,           \* templates.json and placeholders.json
    selectedTemplate, \* the template of the run, <<>> for none, else <<t>>
    userInputs,       \* the UserInputs of the run
    targetDir,        \* the path of the target directory
    tree,             \* the entries of the target directory
    disk,             \* the files of the target directory, by path
    files,            \* processFiles: the list getAllFiles gave
    placeholderStats, \* processFiles: the statistics of the first pass
    hasReplacements,  \* processFiles: the summary showed a key
    filesProcessed,   \* processFiles: the counter of the second pass
    idx,              \* processFiles: the position of the running pass
    message,          \* processFiles: the last line printed
    run,              \* how many times processFiles was started
    orig,             \* the disk when processFiles was started
    reads,            \* the readFile calls of this processFiles
    writes,           \* the writeFile calls of this processFiles
    called,           \* the functions main has called
    events,           \* what the user and the outside world did
    stages,           \* the stages completed, in order
    printed,          \* the messages of main
    stack,            \* getAllFiles: the calls of scan that have not returned
    scanned           \* getAllFiles: the directories scan was called on

vars == <<pc, exitCode, args, config, selectedTemplate, userInputs, targetDir, tree,
          disk, files, placeholderStats, hasReplacements, filesProcessed, idx,
          message, run, orig, reads, writes, called, events, stages, printed, stack,
          scanned>>

scanVars == <<stack, scanned>>

mainVars == <<exitCode, args, config, selectedTemplate, userInputs, targetDir, tree,
              events, printed>>

(***************************************************************************)
(* processFiles, one step at a time.                                       *)
(***************************************************************************)
\* a pass is over when its loop has visited every file of the list
passDoneEarly(i, n) == i >= n
passDone(i, n) == i > n

\* the last line of processFiles
finalMessage(replacements, processed) ==
    IF replacements /\ processed > 0
    THEN [text |-> "files processed", count |-> processed]
    ELSE [text |-> "Template files copied", count |-> 0]

NoMessage == [text |-> "", count |-> 0]

processFilesStart ==
    /\ pc = "processFiles"
    /\ files' = getAllFiles(targetDir, tree)
    /\ placeholderStats' = initStats(userInputs)
    /\ hasReplacements' = FALSE
    /\ filesProcessed' = 0
    /\ idx' = 1
    /\ message' = NoMessage
    /\ run' = run + 1
    /\ orig' = disk
    /\ reads' = <<>>
    /\ writes' = <<>>
    /\ called' = called \cup {"processFiles"}
    /\ pc' = "scan"
    /\ UNCHANGED <<mainVars, scanVars, disk, stages>>

\* first pass, one file
scanStep ==
    /\ pc = "scan"
    /\ ~passDone(idx, Len(files))
    /\ LET filePath == files[idx]
           r == scanFile(filePath, disk[filePath], placeholderStats)
       IN  /\ placeholderStats' = r.stats
           /\ reads' = IF r.read
                       THEN Append(reads, [pass |-> "scan", path |-> filePath,
                                           parseWarned |-> FALSE, warned |-> FALSE])
                       ELSE reads
           /\ pc' = IF r.threw THEN "threw" ELSE "scan"
    /\ idx' = idx + 1
    /\ UNCHANGED <<mainVars, scanVars, disk, files, hasReplacements, filesProcessed, message, run,
                   orig, writes, called, stages>>

\* the placeholder replacement summary, between the passes
summaryStep ==
    /\ pc = "scan"
    /\ passDone(idx, Len(files))
    /\ hasReplacements' = anyCount(placeholderStats)
    /\ filesProcessed' = 0
    /\ idx' = 1
    /\ stages' = Append(stages, "Scanned")
    /\ pc' = "rewrite"
    /\ UNCHANGED <<mainVars, scanVars, disk, files, placeholderStats, message, run, orig, reads,
                   writes, called>>

\* second pass, one file: processFile and the counter
rewriteStep ==
    /\ pc = "rewrite"
    /\ ~passDone(idx, Len(files))
    /\ LET filePath == files[idx]
           r == processFile(filePath, disk[filePath], userInputs)
       IN  /\ disk' = IF r.written THEN [disk EXCEPT ![filePath].content = r.content]
                      ELSE disk
           /\ reads' = IF r.read
                       THEN Append(reads, [pass |-> "rewrite", path |-> filePath,
                                           parseWarned |-> r.parseWarned,
                                           warned |-> r.warned])
                       ELSE reads
           /\ writes' = IF r.writeCalled
                        THEN Append(writes, [path |-> filePath, before |-> disk[filePath].content,
                                             structured |-> r.structured,
                                             replaced |-> r.replaced,
                                             after |-> r.content, ok |-> r.written])
                        ELSE writes
           /\ filesProcessed' = IF r.modified THEN filesProcessed + 1 ELSE filesProcessed
           /\ pc' = IF r.threw THEN "threw" ELSE "rewrite"
    /\ idx' = idx + 1
    /\ UNCHANGED <<mainVars, scanVars, files, placeholderStats, hasReplacements, message, run, orig,
                   called, stages>>

\* the last line, and processFiles returns
finishStep ==
    /\ pc = "rewrite"
    /\ passDone(idx, Len(files))
    /\ message' = finalMessage(hasReplacements, filesProcessed)
    /\ stages' = Append(stages, "Rewritten")
    /\ pc' = "processed"
    /\ UNCHANGED <<mainVars, scanVars, disk, files, placeholderStats, hasReplacements, filesProcessed,
                   idx, run, orig, reads, writes, called>>

\* the tool is run again, with the same inputs, over what the last run left
rerun ==
    /\ pc = "processed"
    /\ run < MaxRuns
    /\ pc' = "processFiles"
    /\ stages' = <<>>
    /\ UNCHANGED <<mainVars, scanVars, disk, files, placeholderStats, hasReplacements, filesProcessed,
                   idx, message, run, orig, reads, writes, called>>

(***************************************************************************)
(* The inputs of processFiles: file lists and user-input maps.             *)
(***************************************************************************)
LogoName == <<"logo", ".", "PNG">>
ReadmeName == <<"readme", ".", "txt">>
LicenseName == <<"LICENSE">>
IconName == <<"icon", ".", "svg">>
ShotName == <<"shot", ".", "png">>
BundleName == <<"bundle", ".", "tar", ".", "gz">>

OnDisk(content, readable, writable) ==
    [content |-> content, readable |-> readable, writable |-> writable]

DocOld ==
    [EmptyDoc EXCEPT
        !.name = StrV(<<"old">>),
        !.author = ObjV(<< <<"Old">> >>, << <<"https://github.com/", "olduser">> >>, <<>>),
        !.keywords = ArrV(<< <<"x">> >>),
        !.description = StrV(<<"PROJECT_NAME", "tool">>)]

DocDone == [EmptyDoc EXCEPT !.name = StrV(<<"@", "john", "/", "App">>)]

\* the files a template may hold: a name and what the disk has for it
FileCands ==
    { [name |-> LogoName, state |-> OnDisk(Text(<<"PROJECT_NAME">>), TRUE, TRUE)],
      [name |-> IconName, state |-> OnDisk(Text(<<"AUTHOR_NAME", "x">>), TRUE, TRUE)],
      [name |-> ShotName, state |-> OnDisk(Text(<<"x">>), TRUE, TRUE)],
      [name |-> BundleName, state |-> OnDisk(Text(<<"PROJECT_NAME">>), TRUE, TRUE)],
      [name |-> ReadmeName, state |-> OnDisk(Text(<<"x">>), TRUE, TRUE)],
      [name |-> ReadmeName, state |-> OnDisk(Text(<<"PROJECT_NAME", "by", "USERNAME">>), TRUE, TRUE)],
      [name |-> ReadmeName, state |-> OnDisk(Text(<<"{{", "PROJECT_NAME", "}}">>), TRUE, TRUE)],
      [name |-> ReadmeName, state |-> OnDisk(Text(<<"PROJECT_NAME">>), FALSE, TRUE)],
      [name |-> ReadmeName, state |-> OnDisk(Text(<<"PROJECT_NAME">>), TRUE, FALSE)],
      [name |-> LicenseName, state |-> OnDisk(Text(<<"AUTHOR_NAME">>), TRUE, TRUE)],
      [name |-> LicenseName, state |-> OnDisk(Text(<<"PROJECT_NAME", "PROJECT_NAME">>), TRUE, TRUE)],
      [name |-> PackageJsonName, state |-> OnDisk(Json(DocOld, FALSE), TRUE, TRUE)],
      [name |-> PackageJsonName, state |-> OnDisk(Json(DocDone, TRUE), TRUE, TRUE)],
      [name |-> PackageJsonName, state |-> OnDisk(Text(<<"{", "PROJECT_NAME">>), TRUE, TRUE)] }

\* the listings of a directory: up to MaxFiles files with different names
Listings ==
    UNION { { l \in [1..n -> FileCands] :
                \A i, j \in 1..n : i # j => l[i].name # l[j].name } : n \in 0..MaxFiles }

\* the template has the listing at its root, or under src/ next to a
\* node_modules directory
treeOf(listing, nested) ==
    LET entries == [i \in 1..Len(listing) |-> File(listing[i].name)]
    IN  IF nested
        THEN << Dir(<<"src">>, entries), Dir(NodeModules, << File(ReadmeName) >>) >>
        ELSE entries

diskOf(dir, listing, nested) ==
    [p \in allPaths(dir, treeOf(listing, nested), 1) |->
        IF Len(p) >= 2 /\ p[Len(p) - 1] = NodeModules
        THEN OnDisk(Text(<<"PROJECT_NAME">>), TRUE, TRUE)
        ELSE (CHOOSE c \in { listing[i] : i \in 1..Len(listing) } : c.name = Last(p)).state]

Entry(key, value) == [key |-> key, value |-> value]

InputMaps ==
    { <<>>,
      << Entry(PROJECT_NAME, <<"App">>) >>,
      << Entry(PROJECT_NAME, <<"App">>), Entry(USERNAME, <<"john">>),
         Entry(AUTHOR_NAME, <<>>), Entry(PACKAGE_NAME, <<"@", "john", "/", "App">>) >>,
      << Entry(USERNAME, <<"john">>), Entry(PROJECT_NAME, <<"USERNAME", "-app">>) >>,
      << Entry(AUTHOR_NAME, <<"Jo">>), Entry(PROJECT_NAME, <<>>) >>,
      << Entry(PROJECT_NAME, <<"my-", "$&">>) >>,
      << Entry(PROJECT_NAME, <<"USERNAME", "-app">>), Entry(USERNAME, <<"john">>) >> }

NoConfig == [templates |-> <<>>, placeholders |-> <<>>]

\* processFiles(targetDir, userInputs) on its own
InitFiles ==
    /\ pc = "processFiles"
    /\ exitCode = -1
    /\ args = <<>>
    /\ config = NoConfig
    /\ selectedTemplate = <<>>
    /\ userInputs \in InputMaps
    /\ targetDir = <<>>
    /\ \E listing \in Listings, nested \in BOOLEAN :
          /\ tree = treeOf(listing, nested)
          /\ disk = diskOf(<<>>, listing, nested)
    /\ files = <<>>
    /\ placeholderStats = <<>>
    /\ hasReplacements = FALSE
    /\ filesProcessed = 0
    /\ idx = 1
    /\ message = NoMessage
    /\ run = 0
    /\ orig = disk
    /\ reads = <<>>
    /\ writes = <<>>
    /\ called = {}
    /\ events = {}
    /\ stages = <<>>
    /\ printed = <<>>
    /\ stack = <<>>
    /\ scanned = <<>>

NextFiles ==
    \/ processFilesStart
    \/ scanStep
    \/ summaryStep
    \/ rewriteStep
    \/ finishStep
    \/ rerun

SpecFiles == InitFiles /\ [][NextFiles]_vars

(***************************************************************************)
(* getAllFiles, one step of scan at a time.  A frame of the stack is a     *)
(* call of scan that has not returned: its directory, the items readdir    *)
(* gave and the position of its loop.                                      *)
(***************************************************************************)
Frame(dir, items) == [dir |-> dir, items |-> items, i |-> 1]

\* await scan(...) on a sub-directory: the call made for the item
descendRoot(fullPath, item) == Frame(targetDir, tree)
descend(fullPath, item) == Frame(fullPath, item.kids)

\* the loop of the caller goes on with its next item
resume(callers) ==
    IF callers = <<>> THEN callers
    ELSE [callers EXCEPT ![Len(callers)].i = @ + 1]

\* getAllFiles(dir): files is empty and scan(dir) is called
getAllFilesStart ==
    /\ pc = "getAllFiles"
    /\ files' = <<>>
    /\ stack' = << Frame(targetDir, tree) >>
    /\ scanned' = << targetDir >>
    /\ pc' = "scanning"
    /\ UNCHANGED <<mainVars, disk, placeholderStats, hasReplacements, filesProcessed, idx,
                   message, run, orig, reads, writes, called, stages>>

\* one turn of the loop of the running scan
scanItem ==
    /\ pc = "scanning"
    /\ stack # <<>>
    /\ LET top == Last(stack)
       IN  /\ top.i <= Len(top.items)
           /\ LET item == top.items[top.i]
                  fullPath == Append(top.dir, item.name)
              IN  IF descends(item)
                  THEN /\ stack' = Append(stack, descend(fullPath, item))
                       /\ scanned' = Append(scanned, descend(fullPath, item).dir)
                       /\ files' = files
                  ELSE /\ stack' = resume(stack)
                       /\ scanned' = scanned
                       /\ files' = IF pushed(item) THEN Append(files, fullPath) ELSE files
    /\ UNCHANGED <<pc, mainVars, disk, placeholderStats, hasReplacements, filesProcessed,
                   idx, message, run, orig, reads, writes, called, stages>>

\* the loop of the running scan is over: it returns to its caller, the
\* first one to getAllFiles, which returns files
scanReturn ==
    /\ pc = "scanning"
    /\ stack # <<>>
    /\ Last(stack).i > Len(Last(stack).items)
    /\ stack' = resume(SubSeq(stack, 1, Len(stack) - 1))
    /\ pc' = IF Len(stack) = 1 THEN "listed" ELSE "scanning"
    /\ UNCHANGED <<mainVars, disk, files, scanned, placeholderStats, hasReplacements,
                   filesProcessed, idx, message, run, orig, reads, writes, called, stages>>

\* the entries a directory tree is made of
TreeCands ==
    { File(ReadmeName),
      File(DotGit),
      File(NodeModules),
      Dir(DotGit, << File(ReadmeName) >>),
      Dir(NodeModules, << Dir(<<"src">>, << File(ReadmeName) >>), File(LicenseName) >>),
      Dir(<<"src">>, <<>>),
      Dir(<<"src">>, << File(LicenseName),
                       Dir(<<"lib">>, << File(ReadmeName),
                                         Dir(DotGit, << File(LicenseName) >>),
                                         File(NodeModules),
                                         Dir(<<"src">>, << File(DotGit) >>) >>),
                       Dir(NodeModules, << File(ReadmeName) >>) >>) }

\* the trees: up to MaxEntries entries with different names at the root
Trees ==
    UNION { { t \in [1..n -> TreeCands] :
                \A i, j \in 1..n : i # j => t[i].name # t[j].name } : n \in 0..MaxEntries }

InitScan ==
    /\ pc = "getAllFiles"
    /\ exitCode = -1
    /\ args = <<>>
    /\ config = NoConfig
    /\ selectedTemplate = <<>>
    /\ userInputs = <<>>
    /\ targetDir = <<>>
    /\ tree \in Trees
    /\ disk = [p \in allPaths(<<>>, tree, 1) |-> OnDisk(Text(<<"x">>), TRUE, TRUE)]
    /\ files = <<>>
    /\ placeholderStats = <<>>
    /\ hasReplacements = FALSE
    /\ filesProcessed = 0
    /\ idx = 1
    /\ message = NoMessage
    /\ run = 0
    /\ orig = disk
    /\ reads = <<>>
    /\ writes = <<>>
    /\ called = {}
    /\ events = {}
    /\ stages = <<>>
    /\ printed = <<>>
    /\ stack = <<>>
    /\ scanned = <<>>

NextScan ==
    \/ getAllFilesStart
    \/ scanItem
    \/ scanReturn

\* every await of getAllFiles resolves: readdir and stat answer
SpecScan == InitScan /\ [][NextScan]_vars /\ WF_vars(NextScan)

(***************************************************************************)
(* processFiles over a template that holds one package.json: the shapes    *)
(* its fields may have, and the user-input maps.                           *)
(***************************************************************************)
OldUrl == <<"https://github.com/", "olduser">>
OldRepo == <<"https://github.com/", "olduser", "/", "old">>

NameShapes == { Absent, StrV(<<"old">>) }

AuthorShapes ==
    { Absent,
      StrV(<<"Old">>),
      ObjV(<< <<"Old">> >>, << OldUrl >>, << <<"USERNAME", "@x.org">> >>),
      ObjV(<< <<"Old">> >>, <<>>, << <<"old@x.org">> >>),
      ObjV(<<>>, << OldUrl >>, <<>>),
      ObjV(<< <<>> >>, <<>>, <<>>) }

\* repository and bugs: absent, a string, an object with url and type, an
\* object without url
UrlShapes ==
    << Absent,
       StrV(OldRepo),
       ObjV(<<>>, << OldRepo >>, << <<"git">> >>),
       ObjV(<<>>, <<>>, << <<"git">> >>) >>

HomepageShapes == { Absent, StrV(OldRepo) }

KeywordShapes ==
    { Absent,
      StrV(<<"x">>),
      ArrV(<< <<"x">> >>),
      ArrV(<< <<"utility">>, <<"x">>, <<"app">>, <<"x">> >>) }

PackageDocs ==
    { [EmptyDoc EXCEPT !.name = n, !.author = a, !.repository = UrlShapes[r],
                       !.bugs = UrlShapes[(r % Len(UrlShapes)) + 1],
                       !.homepage = h, !.keywords = k,
                       !.description = IF h = Absent THEN StrV(<<"A", "tool">>) ELSE Absent] :
        n \in NameShapes, a \in AuthorShapes, r \in 1..Len(UrlShapes),
        h \in HomepageShapes, k \in KeywordShapes }

PackageInputMaps ==
    { <<>>,
      << Entry(PROJECT_NAME, <<"App">>), Entry(USERNAME, <<"john">>),
         Entry(AUTHOR_NAME, <<"Jo">>), Entry(PACKAGE_NAME, <<"@", "john", "/", "App">>) >>,
      << Entry(PROJECT_NAME, <<"App">>), Entry(USERNAME, <<"john">>),
         Entry(AUTHOR_NAME, <<>>), Entry(PACKAGE_NAME, <<"App">>) >>,
      << Entry(PROJECT_NAME, <<"App">>), Entry(PACKAGE_NAME, <<"App">>) >>,
      << Entry(USERNAME, <<"john">>), Entry(AUTHOR_NAME, <<"Jo">>) >>,
      << Entry(USERNAME, <<"john">>), Entry(PROJECT_NAME, <<"App">>) >>,
      << Entry(USERNAME, <<"john">>), Entry(PROJECT_NAME, <<"USERNAME", "-app">>),
         Entry(PACKAGE_NAME, <<"USERNAME", "-app">>) >> }

InitPackage ==
    /\ pc = "processFiles"
    /\ exitCode = -1
    /\ args = <<>>
    /\ config = NoConfig
    /\ selectedTemplate = <<>>
    /\ userInputs \in PackageInputMaps
    /\ targetDir = <<>>
    /\ tree = << File(PackageJsonName) >>
    /\ \E doc \in PackageDocs :
          disk = [p \in { <<PackageJsonName>> } |-> OnDisk(Json(doc, FALSE), TRUE, TRUE)]
    /\ files = <<>>
    /\ placeholderStats = <<>>
    /\ hasReplacements = FALSE
    /\ filesProcessed = 0
    /\ idx = 1
    /\ message = NoMessage
    /\ run = 0
    /\ orig = disk
    /\ reads = <<>>
    /\ writes = <<>>
    /\ called = {}
    /\ events = {}
    /\ stages = <<>>
    /\ printed = <<>>
    /\ stack = <<>>
    /\ scanned = <<>>

SpecPackage == InitPackage /\ [][NextFiles]_vars

(***************************************************************************)
(* main: the functions it calls, as operators of what the user and the     *)
(* outside world answer.                                                   *)
(***************************************************************************)
pfVars == <<files, placeholderStats, hasReplacements, filesProcessed, idx, message, run,
            orig, reads, writes, stack, scanned>>

Null == [null |-> TRUE, value |-> <<>>]
Some(v) == [null |-> FALSE, value |-> v]

Template(name, repo) ==
    [name |-> name, description |-> <<"Template from">> \o repo, repo |-> repo]

Placeholder(key, default, required) ==
    [key |-> key, default |-> default, required |-> required]

\* args[0], <<>> for undefined
templateArgOf(argv) == IF argv = <<>> THEN <<>> ELSE argv[1]

isHereFlagOf(argv) == \E i \in 1..Len(argv) : argv[i] = <<"--here">>

isVersionOf(argv) == \E i \in 1..Len(argv) : argv[i] \in {<<"--version">>, <<"-v">>}

\* loadConfig: throws when one of the two files is missing
loadConfigThrows(templatesExist, placeholdersExist) ==
    ~templatesExist \/ ~placeholdersExist

\* selectTemplate with a template argument: the configured template found,
\* or one made for the repository
selectTemplateByArgNoPrefix(templates, templateArg) ==
    LET hits == { i \in 1..Len(templates) :
                    \/ templates[i].name = templateArg
                    \/ templates[i].repo = templateArg }
    IN  IF hits # {}
        THEN templates[CHOOSE i \in hits : \A j \in hits : i <= j]
        ELSE Template(templateArg, templateArg)

selectTemplateByArg(templates, templateArg) ==
    LET repoPath == IF includes(templateArg, <<"/">>) THEN templateArg
                    ELSE <<"phucbm", "/">> \o templateArg
        hits == { i \in 1..Len(templates) :
                    \/ templates[i].name = templateArg
                    \/ templates[i].repo = templateArg
                    \/ templates[i].repo = repoPath }
    IN  IF hits # {}
        THEN templates[CHOOSE i \in hits : \A j \in hits : i <= j]
        ELSE Template(templateArg, repoPath)

\* selectTemplate: choice is what the select prompt gave, 0 when cancelled
selectTemplate(templates, templateArg, choice) ==
    IF templateArg # <<>> THEN Some(selectTemplateByArg(templates, templateArg))
    ELSE IF choice = 0 THEN Null
    ELSE Some(templates[choice])

\* validateTemplate: throws unless the response is ok
responseOk(status) == status >= 200 /\ status <= 299
validateTemplateThrowsOn404Only(status) == status = 404
validateTemplateThrows(status) == ~responseOk(status)

\* the validate function of a text question
validAnswer(placeholder, value) == ~(placeholder.required /\ trim(value) = <<>>)

\* prompts(questions): the answers given before the question that was
\* cancelled (cancelAt, 0 for none); the questions after it are not asked
promptsResponse(placeholders, answers, cancelAt) ==
    LET n == IF cancelAt = 0 THEN Len(placeholders) ELSE cancelAt - 1
    IN  [i \in 1..n |-> Entry(placeholders[i].key, answers[i])]

\* collectInputs: null when a required key has no answer
collectInputs(placeholders, response) ==
    IF \E i \in 1..Len(placeholders) :
          placeholders[i].required /\ ~hasKey(response, placeholders[i].key)
    THEN Null
    ELSE Some(response)

\* a value inside a template literal
interpolate(inputs, key) ==
    IF hasKey(inputs, key) THEN valueOf(inputs, key) ELSE <<"undefined">>

\* suggestPackageName: choice is the entry selected ("project", "scoped",
\* "custom") or "cancel"; custom is the name typed, Null when cancelled
suggestPackageName(username, projectName, choice, custom) ==
    CASE choice = "cancel" -> Null
      [] choice = "project" -> IF projectName = <<>> THEN Null ELSE Some(projectName)
      [] choice = "scoped" -> Some(<<"@">> \o username \o <<"/">> \o projectName)
      [] OTHER -> IF custom.null \/ custom.value = <<>> THEN Null ELSE custom

\* hasExistingFiles: items is what readdir gave, Null when it failed
hasExistingFiles(items) ==
    IF items.null THEN FALSE
    ELSE \E i \in 1..Len(items.value) :
            LET item == items.value[i]
            IN  /\ Head(item) # "."
                /\ item # NodeModules
                /\ item # <<"package-lock", ".", "json">>
                /\ item # <<"yarn", ".", "lock">>
                /\ item # <<"pnpm-lock", ".", "yaml">>

\* promptForReplacement: response.replace || false; "enter" takes the
\* initial value of the confirm prompt, which is false
promptForReplacement(answer) == IF answer = "enter" THEN FALSE ELSE answer = "yes"

\* whether main asks before it downloads
needsConfirmationTargetOnly(isHereFlag, targetExists, items) ==
    IF ~isHereFlag THEN targetExists ELSE FALSE

needsConfirmation(isHereFlag, targetExists, items) ==
    IF ~isHereFlag THEN targetExists ELSE hasExistingFiles(items)

\* downloadTemplate: a rejected clone is thrown again
downloadTemplateSwallows(cloneRejected) == FALSE
downloadTemplateThrows(cloneRejected) == cloneRejected

\* the statement main goes on with when the one at p has returned
nextStatementNoDownload(p) ==
    CASE p = "main" -> "parseArgs"
      [] p = "parseArgs" -> "loadConfig"
      [] p = "loadConfig" -> "selectTemplate"
      [] p = "selectTemplate" -> "validateTemplate"
      [] p = "validateTemplate" -> "collectInputs"
      [] p = "collectInputs" -> "suggestPackageName"
      [] p = "suggestPackageName" -> "resolveTarget"
      [] p = "resolveTarget" -> "processFiles"
      [] p = "downloadTemplate" -> "processFiles"
      [] OTHER -> "exited"

nextStatement(p) ==
    CASE p = "main" -> "parseArgs"
      [] p = "parseArgs" -> "loadConfig"
      [] p = "loadConfig" -> "selectTemplate"
      [] p = "selectTemplate" -> "validateTemplate"
      [] p = "validateTemplate" -> "collectInputs"
      [] p = "collectInputs" -> "suggestPackageName"
      [] p = "suggestPackageName" -> "resolveTarget"
      [] p = "resolveTarget" -> "downloadTemplate"
      [] p = "downloadTemplate" -> "processFiles"
      [] OTHER -> "exited"

\* the exit code of each way main ends: process.exit(1) after a cancelled
\* selection or setup and in the catch, process.exit(0) after a declined
\* overwrite and for --version, and 0 when main returns or rejects
exitCodeOf(ending) ==
    CASE ending = "cancelled" -> 1
      [] ending = "error" -> 1
      [] ending = "declined" -> 0
      [] OTHER -> 0

(***************************************************************************)
(* main, one statement at a time.                                          *)
(***************************************************************************)
exit(ending) ==
    /\ pc' = "exited"
    /\ exitCode' = exitCodeOf(ending)

goOn == /\ pc' = nextStatement(pc)
        /\ exitCode' = exitCode

throw == /\ pc' = "threw"
         /\ exitCode' = exitCode

EmptyDisk == [p \in {} |-> OnDisk(Text(<<>>), TRUE, TRUE)]

\* the package.json of the tool is read, before the try
mainStart ==
    /\ pc = "main"
    /\ \E pkgReadable \in BOOLEAN :
          IF pkgReadable
          THEN /\ goOn
               /\ printed' = Append(printed, "Welcome to gen-from")
               /\ events' = events
          ELSE /\ exit("rejected")
               /\ printed' = Append(printed, "console.error")
               /\ events' = events \cup {"pkg:unreadable"}
    /\ UNCHANGED <<args, config, selectedTemplate, userInputs, targetDir, tree, disk,
                   pfVars, called, stages>>

parseArgs ==
    /\ pc = "parseArgs"
    /\ IF isVersionOf(args)
       THEN /\ exit("version")
            /\ printed' = Append(printed, "version")
       ELSE /\ goOn
            /\ printed' = printed
    /\ UNCHANGED <<args, config, selectedTemplate, userInputs, targetDir, tree, disk,
                   pfVars, called, events, stages>>

loadConfigStep ==
    /\ pc = "loadConfig"
    /\ called' = called \cup {"loadConfig"}
    /\ \E templatesExist, placeholdersExist \in BOOLEAN :
          IF loadConfigThrows(templatesExist, placeholdersExist)
          THEN /\ throw
               /\ events' = events \cup {"config:missing"}
               /\ stages' = stages
          ELSE /\ goOn
               /\ events' = events
               /\ stages' = Append(stages, "ConfigLoaded")
    /\ UNCHANGED <<args, config, selectedTemplate, userInputs, targetDir, tree, disk,
                   pfVars, printed>>

selectTemplateStep ==
    /\ pc = "selectTemplate"
    /\ called' = called \cup {"selectTemplate"}
    /\ \E choice \in 0..Len(config.templates) :
          LET templateArg == templateArgOf(args)
              selected == selectTemplate(config.templates, templateArg, choice)
          IN  /\ templateArg # <<>> => choice = 0
              /\ events' = IF templateArg = <<>>
                           THEN events \cup {IF choice = 0 THEN "cancel:template"
                                             ELSE "prompt:template"}
                           ELSE events
              /\ IF selected.null
                 THEN /\ exit("cancelled")
                      /\ printed' = Append(printed, "Template selection cancelled")
                      /\ selectedTemplate' = selectedTemplate
                      /\ stages' = stages
                 ELSE /\ goOn
                      /\ printed' = printed
                      /\ selectedTemplate' = <<selected.value>>
                      /\ stages' = Append(stages, "TemplateSelected")
    /\ UNCHANGED <<args, config, userInputs, targetDir, tree, disk, pfVars>>

validateTemplateStep ==
    /\ pc = "validateTemplate"
    /\ called' = called \cup {"validateTemplate"}
    /\ \E status \in {200, 404, 500} :
          /\ events' = events \cup {CASE status = 200 -> "fetch:200"
                                      [] status = 404 -> "fetch:404"
                                      [] OTHER -> "fetch:500"}
          /\ IF validateTemplateThrows(status)
             THEN /\ throw
                  /\ stages' = stages
             ELSE /\ goOn
                  /\ stages' = Append(stages, "Validated")
    /\ UNCHANGED <<args, config, selectedTemplate, userInputs, targetDir, tree, disk,
                   pfVars, printed>>

AnswerValues == { <<>>, <<" ">>, <<"App">>, <<"john">> }

collectInputsStep ==
    /\ pc = "collectInputs"
    /\ called' = called \cup {"collectInputs"}
    /\ LET placeholders == config.placeholders
           n == Len(placeholders)
       IN  \E cancelAt \in 0..n, answers \in [1..n -> AnswerValues] :
              /\ \A i \in 1..n :
                    IF cancelAt = 0 \/ i < cancelAt
                    THEN validAnswer(placeholders[i], answers[i])
                    ELSE answers[i] = <<>>
              /\ LET response == promptsResponse(placeholders, answers, cancelAt)
                     inputs == collectInputs(placeholders, response)
                 IN  /\ events' = IF cancelAt = 0 THEN events
                                  ELSE events \cup {"cancel:inputs"}
                     /\ IF inputs.null
                        THEN /\ exit("cancelled")
                             /\ printed' = Append(printed, "Setup cancelled")
                             /\ userInputs' = userInputs
                        ELSE /\ goOn
                             /\ printed' = printed
                             /\ userInputs' = inputs.value
    /\ UNCHANGED <<args, config, selectedTemplate, targetDir, tree, disk, pfVars, stages>>

CustomNames == { Null, Some(<<"my-pkg">>) }

suggestPackageNameStep ==
    /\ pc = "suggestPackageName"
    /\ called' = called \cup {"suggestPackageName"}
    /\ \E choice \in {"project", "scoped", "custom", "cancel"}, custom \in CustomNames :
          LET packageName == suggestPackageName(interpolate(userInputs, USERNAME),
                                                interpolate(userInputs, PROJECT_NAME),
                                                choice, custom)
          IN  /\ choice # "custom" => custom.null
              /\ events' = IF choice = "cancel" \/ (choice = "custom" /\ custom.null)
                           THEN events \cup {"cancel:package"} ELSE events
              /\ IF packageName.null
                 THEN /\ exit("cancelled")
                      /\ printed' = Append(printed, "Setup cancelled")
                      /\ userInputs' = userInputs
                      /\ stages' = stages
                 ELSE /\ goOn
                      /\ printed' = printed
                      /\ userInputs' = setKey(userInputs, PACKAGE_NAME, packageName.value)
                      /\ stages' = Append(stages, "InputsCollected")
    /\ UNCHANGED <<args, config, selectedTemplate, targetDir, tree, disk, pfVars>>

CwdListings ==
    { Null, Some(<<>>), Some(<< DotGit, NodeModules, <<"pnpm-lock", ".", "yaml">> >>),
      Some(<< DotGit, <<"src">> >>) }

\* the target directory, and the confirmation when it holds something
resolveTargetStep ==
    /\ pc = "resolveTarget"
    /\ targetDir' = IF isHereFlagOf(args) THEN <<>> ELSE << valueOf(userInputs, PROJECT_NAME) >>
    /\ \E targetExists \in BOOLEAN, items \in CwdListings, answer \in {"yes", "no", "enter", "cancel"} :
          LET ask == needsConfirmation(isHereFlagOf(args), targetExists, items)
          IN  /\ isHereFlagOf(args) => ~targetExists
              /\ ~isHereFlagOf(args) => items = Null
              /\ ~ask => answer = "yes"
              /\ called' = IF ask THEN called \cup {"promptForReplacement"} ELSE called
              /\ events' = events
                    \cup (IF targetExists THEN {"target:exists"} ELSE {})
                    \cup (IF ~items.null /\ \E i \in 1..Len(items.value) : items.value[i] = <<"src">>
                          THEN {"cwd:src"} ELSE {})
                    \cup (IF ask /\ answer = "enter" THEN {"answer:default"} ELSE {})
                    \cup (IF ask /\ answer = "yes" THEN {"confirmed:overwrite"} ELSE {})
                    \cup (IF ask /\ answer # "yes" THEN {"declined:overwrite"} ELSE {})
              /\ IF ask /\ ~promptForReplacement(answer)
                 THEN /\ exit("declined")
                      /\ printed' = Append(printed, "Operation cancelled")
                      /\ stages' = stages
                 ELSE /\ goOn
                      /\ printed' = printed
                      /\ stages' = Append(stages, "TargetResolved")
    /\ UNCHANGED <<args, config, selectedTemplate, userInputs, tree, disk, pfVars>>

\* what the template repositories hold
RepoListings ==
    { <<>>,
      << [name |-> LogoName, state |-> OnDisk(Text(<<"PROJECT_NAME">>), TRUE, TRUE)],
         [name |-> ReadmeName, state |-> OnDisk(Text(<<"PROJECT_NAME", "by", "USERNAME">>), TRUE, TRUE)] >>,
      << [name |-> PackageJsonName, state |-> OnDisk(Json(DocOld, FALSE), TRUE, TRUE)],
         [name |-> ReadmeName, state |-> OnDisk(Text(<<"x">>), TRUE, FALSE)] >> }

downloadTemplateStep ==
    /\ pc = "downloadTemplate"
    /\ called' = called \cup {"downloadTemplate"}
    /\ \E cloneRejected \in BOOLEAN, listing \in RepoListings :
          /\ cloneRejected => listing = <<>>
          /\ events' = IF cloneRejected THEN events \cup {"clone:rejected"} ELSE events
          /\ tree' = treeOf(listing, FALSE)
          /\ disk' = diskOf(targetDir, listing, FALSE)
          /\ IF downloadTemplateThrows(cloneRejected)
             THEN /\ throw
                  /\ printed' = printed
                  /\ stages' = stages
             ELSE /\ goOn
                  /\ printed' = IF cloneRejected THEN printed
                                ELSE Append(printed, "Template downloaded")
                  /\ stages' = IF cloneRejected THEN stages ELSE Append(stages, "Downloaded")
    /\ UNCHANGED <<args, config, selectedTemplate, userInputs, targetDir, pfVars>>

\* processFiles has returned
successStep ==
    /\ pc = "processed"
    /\ exit("returned")
    /\ printed' = Append(printed, "Project generated successfully")
    /\ stages' = Append(stages, "Done")
    /\ UNCHANGED <<args, config, selectedTemplate, userInputs, targetDir, tree, disk,
                   pfVars, called, events>>

\* the catch of main
mainCatch ==
    /\ pc = "threw"
    /\ exit("error")
    /\ printed' = Append(printed, "Error")
    /\ UNCHANGED <<args, config, selectedTemplate, userInputs, targetDir, tree, disk,
                   pfVars, called, events, stages>>

(***************************************************************************)
(* The inputs of main.                                                     *)
(***************************************************************************)
ArgLists ==
    { <<>>,
      << <<"npm-utils-template">> >>,
      << <<"john", "/", "tpl">>, <<"--here">> >>,
      << <<"john", "/", "utils">> >>,
      << <<"--here">> >>,
      << <<"--version">> >> }

Configs ==
    { [templates |-> << [name |-> <<"utils">>,
                          description |-> <<"NPM utility package">>,
                          repo |-> <<"phucbm", "/", "npm-utils-template">>] >>,
       placeholders |-> << Placeholder(PROJECT_NAME, <<"my-project">>, TRUE),
                           Placeholder(USERNAME, <<>>, TRUE),
                           Placeholder(AUTHOR_NAME, <<>>, FALSE) >>],
      [templates |-> << [name |-> <<"npm-utils-template">>,
                          description |-> <<"NPM utility package">>,
                          repo |-> <<"john", "/", "utils">>] >>,
       placeholders |-> << Placeholder(PROJECT_NAME, <<"my-project">>, TRUE),
                           Placeholder(USERNAME, <<>>, TRUE) >>] }

Init ==
    /\ pc = "main"
    /\ exitCode = -1
    /\ args \in ArgLists
    /\ config \in Configs
    /\ selectedTemplate = <<>>
    /\ userInputs = <<>>
    /\ targetDir = <<>>
    /\ tree = <<>>
    /\ disk = EmptyDisk
    /\ files = <<>>
    /\ placeholderStats = <<>>
    /\ hasReplacements = FALSE
    /\ filesProcessed = 0
    /\ idx = 1
    /\ message = NoMessage
    /\ run = 0
    /\ orig = EmptyDisk
    /\ reads = <<>>
    /\ writes = <<>>
    /\ called = {}
    /\ events = {}
    /\ stages = <<>>
    /\ printed = <<>>
    /\ stack = <<>>
    /\ scanned = <<>>

Next ==
    \/ mainStart
    \/ parseArgs
    \/ loadConfigStep
    \/ selectTemplateStep
    \/ validateTemplateStep
    \/ collectInputsStep
    \/ suggestPackageNameStep
    \/ resolveTargetStep
    \/ downloadTemplateStep
    \/ processFilesStart
    \/ scanStep
    \/ summaryStep
    \/ rewriteStep
    \/ finishStep
    \/ successStep
    \/ mainCatch

Spec == Init /\ [][Next]_vars

(***************************************************************************)
(* Properties.                                                             *)
(***************************************************************************)
\* the extension of the path, lower-cased, is one of the binary extensions
HasBinaryExtension(filePath) == toLowerCase(extname(filePath)) \in binaryExtensions

FileSet == { files[i] : i \in 1..Len(files) }

ReadIn(pass, filePath) ==
    \E i \in 1..Len(reads) : reads[i].pass = pass /\ reads[i].path = filePath

Written(filePath) ==
    \E i \in 1..Len(writes) : writes[i].path = filePath /\ writes[i].ok

\* the occurrences of a key in the text files the first pass could read, as
\* they were when processFiles started
RECURSIVE OccurrencesAtStart(_, _)
OccurrencesAtStart(key, i) ==
    IF i > Len(files) THEN 0
    ELSE (IF ~HasBinaryExtension(files[i]) /\ orig[files[i]].readable
          THEN occurrences(orig[files[i]].content, key) ELSE 0)
         + OccurrencesAtStart(key, i + 1)

\* C1: no file is written before the first pass has visited every file of
\* the list, and the counts of the summary are those of the content the
\* files had before any write, from the summary on
C1_ScanBeforeWrite ==
    /\ writes # <<>> =>
          \A p \in FileSet : ~HasBinaryExtension(p) => ReadIn("scan", p)
    /\ pc \in {"rewrite", "processed"} =>
          /\ Len(placeholderStats) = Len(userInputs)
          /\ \A k \in 1..Len(userInputs) :
                /\ placeholderStats[k].key = userInputs[k].key
                /\ placeholderStats[k].count = OccurrencesAtStart(userInputs[k].key, 1)

C1_Witness ==
    /\ pc = "processed"
    /\ Len(files) >= 2
    /\ \E i \in 1..Len(writes) : writes[i].ok /\ writes[i].after # writes[i].before
    /\ \E k \in 1..Len(placeholderStats) :
          /\ placeholderStats[k].count > 0
          /\ placeholderStats[k].count
               # sumCounts(Flatten([i \in 1..Len(files) |->
                                      stringsOfContent(disk[files[i]].content)]),
                           placeholderStats[k].key)

StageOrder ==
    <<"ConfigLoaded", "TemplateSelected", "Validated", "InputsCollected", "TargetResolved",
      "Downloaded", "Scanned", "Rewritten", "Done">>

\* the number of stages that are over when main calls a function
StagesBefore(f) ==
    CASE f = "loadConfig" -> 0
      [] f = "selectTemplate" -> 1
      [] f = "validateTemplate" -> 2
      [] f = "collectInputs" -> 3
      [] f = "suggestPackageName" -> 3
      [] f = "promptForReplacement" -> 4
      [] f = "downloadTemplate" -> 5
      [] OTHER -> 6

\* C2: the stages of a run are completed in the one order, none starts
\* before the ones ahead of it are over, and the success message comes
\* after the rewrite pass
C2_StageOrder ==
    /\ Len(stages) <= Len(StageOrder)
    /\ stages = SubSeq(StageOrder, 1, Len(stages))
    /\ \A f \in called : Len(stages) >= StagesBefore(f)
    /\ reads # <<>> \/ writes # <<>> => Len(stages) >= 6
    /\ (\E i \in 1..Len(printed) : printed[i] = "Project generated successfully")
          => stages = StageOrder

C2_Witness ==
    /\ pc = "exited"
    /\ stages = StageOrder
    /\ writes # <<>>

CancelEvents == {"cancel:template", "cancel:inputs", "cancel:package", "declined:overwrite"}

SuccessPrinted == \E i \in 1..Len(printed) : printed[i] = "Project generated successfully"

\* C3: once the user has cancelled a prompt or declined the overwrite, no
\* template is downloaded, no file is read or written, no success is printed
C3_CancelAbsorbing ==
    events \cap CancelEvents # {} =>
        /\ "downloadTemplate" \notin called
        /\ "processFiles" \notin called
        /\ reads = <<>>
        /\ writes = <<>>
        /\ ~SuccessPrinted

\* C4: the exit code is 0 after a success and after every cancellation, and
\* 1 after every fatal error
C4_ExitCodes ==
    pc = "exited" /\ printed # <<>> =>
        /\ Last(printed) \in {"Project generated successfully", "Template selection cancelled",
                              "Setup cancelled", "Operation cancelled"} => exitCode = 0
        /\ Last(printed) = "Error" => exitCode = 1

\* C5: when the repository check answers 404 or another status that is not
\* ok, the run fails and asks for no input and downloads nothing
C5_ValidationFailureAborts ==
    events \cap {"fetch:404", "fetch:500"} # {} =>
        /\ called \cap {"collectInputs", "suggestPackageName", "promptForReplacement",
                        "downloadTemplate", "processFiles"} = {}
        /\ pc \in {"threw", "exited"}
        /\ pc = "exited" => exitCode = 1 /\ Last(printed) = "Error"

C5_Witness ==
    /\ pc = "exited"
    /\ "fetch:500" \in events
    /\ "validateTemplate" \in called

\* C6: when the clone is rejected the run fails, processFiles is not called,
\* no file is read or written and no success is printed
C6_DownloadFailureAborts ==
    "clone:rejected" \in events =>
        /\ "processFiles" \notin called
        /\ reads = <<>>
        /\ writes = <<>>
        /\ ~SuccessPrinted
        /\ pc \in {"threw", "exited"}
        /\ pc = "exited" => exitCode = 1 /\ Last(printed) = "Error"

C6_Witness ==
    /\ pc = "exited"
    /\ "clone:rejected" \in events
    /\ "downloadTemplate" \in called

\* what one file holds after processFile, had it been the only file
AloneResult(filePath) ==
    LET r == processFile(filePath, orig[filePath], userInputs)
    IN  IF r.written THEN r.content ELSE orig[filePath].content

\* C7: whatever files fail to be read or written, processFiles throws
\* nothing, visits every file in both passes and leaves every file as
\* processFile leaves it on its own
C7_FailuresIsolated ==
    /\ pc # "threw"
    /\ pc \in {"rewrite", "processed"} =>
          \A p \in FileSet : ~HasBinaryExtension(p) => ReadIn("scan", p)
    /\ pc = "processed" =>
          /\ message # NoMessage
          /\ \A p \in FileSet :
                /\ ~HasBinaryExtension(p) => ReadIn("rewrite", p)
                /\ disk[p].content = AloneResult(p)

C7_Witness ==
    /\ pc = "processed"
    /\ \E i, j \in 1..Len(files) :
          /\ i < j
          /\ ~HasBinaryExtension(files[i])
          /\ ~orig[files[i]].readable \/ ~orig[files[i]].writable
             \/ (isPackageJson(files[i]) /\ ~orig[files[i]].content.json)
          /\ Written(files[j])
          /\ disk[files[j]] # orig[files[j]]

\* C8: a file with a binary extension is not read, not written, not
\* counted, and keeps its content; a text file next to it has its keys
\* replaced
C8_BinarySkipped ==
    /\ \A p \in FileSet : HasBinaryExtension(p) =>
          /\ ~ReadIn("scan", p)
          /\ ~ReadIn("rewrite", p)
          /\ \A i \in 1..Len(writes) : writes[i].path # p
          /\ disk[p] = orig[p]
    /\ pc \in {"rewrite", "processed"} =>
          /\ \A k \in 1..Len(placeholderStats) :
                placeholderStats[k].count = OccurrencesAtStart(placeholderStats[k].key, 1)
          /\ filesProcessed <= Cardinality({ p \in FileSet : ~HasBinaryExtension(p) })
    /\ pc = "processed" =>
          \A p \in FileSet :
              (/\ ~HasBinaryExtension(p)
               /\ ~isPackageJson(p)
               /\ orig[p].readable /\ orig[p].writable)
              => disk[p].content
                    = replaceKeys(orig[p].content, FALSE, userInputs, 1).content

C8_Witness ==
    /\ pc = "processed"
    /\ \E p, q \in FileSet :
          /\ HasBinaryExtension(p)
          /\ \E k \in 1..Len(userInputs) : contentIncludes(disk[p].content, userInputs[k].key)
          /\ ~HasBinaryExtension(q)
          /\ Written(q)
          /\ contentIncludes(orig[q].content, PROJECT_NAME)
          /\ ~contentIncludes(disk[q].content, PROJECT_NAME)

\* C9: processFile writes a file only when the content it computed differs
\* from the content it read, so a file where no key occurs is not written
C9_WriteOnlyIfDiffers ==
    \A i \in 1..Len(writes) :
        /\ writes[i].after # writes[i].before
        /\ \E k \in 1..Len(userInputs) :
              contentIncludes(writes[i].before, userInputs[k].key)

\* C10: a second run with the same inputs over what the first run left
\* changes no content, writes no file and counts no modified file
C10_Idempotent ==
    run >= 2 /\ pc = "processed" =>
        /\ disk = orig
        /\ writes = <<>>
        /\ filesProcessed = 0

\* the occurrence of key at position i of s lies inside a match of another
\* key of the map
InsideOtherMatch(s, key, i) ==
    \E k \in 1..Len(userInputs) :
        /\ userInputs[k].key # key
        /\ \E q \in 1..Len(s) :
              /\ MatchAt(s, userInputs[k].key, q)
              /\ q <= i
              /\ i + Len(key) <= q + Len(userInputs[k].key)

\* C11: the content processFile writes holds no occurrence of a key whose
\* value is not empty, except inside a match of another key left in place
C11_NoKeyRemains ==
    \A w \in 1..Len(writes), k \in 1..Len(userInputs) :
        userInputs[k].value # <<>> =>
            LET ss == stringsOfContent(writes[w].after)
            IN  \A j \in 1..Len(ss) :
                    \A i \in 1..Len(ss[j]) :
                        MatchAt(ss[j], userInputs[k].key, i)
                            => InsideOtherMatch(ss[j], userInputs[k].key, i)

\* the matches of key k the second pass has replaced, from write w on
RECURSIVE ReplacedTotal(_, _)
ReplacedTotal(k, w) ==
    IF w > Len(writes) THEN 0 ELSE writes[w].replaced[k] + ReplacedTotal(k, w + 1)

\* C12: for every key, the count the summary showed is the number of
\* occurrences the second pass has replaced when processFiles returns
C12_PassesAgree ==
    pc = "processed" =>
        \A k \in 1..Len(userInputs) :
            placeholderStats[k].count = ReplacedTotal(k, 1)

\* the writes of a package.json that parsed
PackageWrites ==
    { w \in 1..Len(writes) : isPackageJson(writes[w].path) /\ writes[w].before.json }

\* C13: when PACKAGE_NAME is given, processFile writes the package.json
\* that parses, the name of the written document is the value of
\* PACKAGE_NAME and the file counts as modified
C13_NameIsPackageName ==
    (pc = "processed" /\ given(userInputs, PACKAGE_NAME)) =>
        \A p \in FileSet :
            (isPackageJson(p) /\ orig[p].content.json /\ orig[p].readable /\ orig[p].writable)
            => /\ \E w \in PackageWrites : writes[w].path = p /\ writes[w].ok
               /\ disk[p].content.json
               /\ disk[p].content.doc.name = StrV(valueOf(userInputs, PACKAGE_NAME))
               /\ filesProcessed >= 1

\* the package.json files of the run that parse
ParsedPackages ==
    { p \in FileSet : isPackageJson(p) /\ orig[p].content.json /\ orig[p].readable }

WriteCalled(p) == \E w \in 1..Len(writes) : writes[w].path = p

\* the document the special handling left when processFile went on to the
\* standard replacement: the one serialised when a write followed, the one
\* on disk when none did
StructuredDoc(p) ==
    IF WriteCalled(p)
    THEN writes[CHOOSE w \in 1..Len(writes) : writes[w].path = p].structured.doc
    ELSE disk[p].content.doc

\* a sub-field that is there and is not the empty string
Exists(o) == Len(o) = 1 /\ o[1] # <<>>

UserUrl == <<"https://github.com/">> \o valueOf(userInputs, USERNAME)
RepoUrl == UserUrl \o <<"/">> \o valueOf(userInputs, PROJECT_NAME)

\* the author field before (a) and after (b) the special handling
AuthorRule(a, b) ==
    /\ a.t = "obj" =>
          /\ b.t = "obj"
          /\ b.other = a.other
          /\ b.name = IF given(userInputs, AUTHOR_NAME) /\ Exists(a.name)
                      THEN <<valueOf(userInputs, AUTHOR_NAME)>> ELSE a.name
          /\ b.url = IF given(userInputs, USERNAME) /\ Exists(a.url)
                     THEN <<UserUrl>> ELSE a.url
    /\ a.t = "str" =>
          b = IF given(userInputs, AUTHOR_NAME) /\ a.s # <<>>
              THEN StrV(valueOf(userInputs, AUTHOR_NAME)) ELSE a
    /\ a.t = "absent" => b = a

\* C14: the special handling overwrites the name of an object author with
\* AUTHOR_NAME exactly when AUTHOR_NAME is given and the name is there, its
\* url with the GitHub URL of USERNAME exactly when USERNAME is given and
\* the url is there, each on its own, and keeps its other sub-fields; it
\* replaces a string author by AUTHOR_NAME exactly when AUTHOR_NAME is given
C14_AuthorByShape ==
    pc = "processed" =>
        \A p \in ParsedPackages :
            AuthorRule(orig[p].content.doc.author, StructuredDoc(p).author)

C14_Witness ==
    /\ pc = "processed"
    /\ given(userInputs, AUTHOR_NAME)
    /\ given(userInputs, USERNAME)
    /\ \E p \in ParsedPackages :
          LET a == orig[p].content.doc.author
              b == StructuredDoc(p).author
          IN  /\ a.t = "obj" /\ Exists(a.name) /\ a.url = <<>> /\ Exists(a.other)
              /\ b.name = <<valueOf(userInputs, AUTHOR_NAME)>>
              /\ b.name # a.name
              /\ b.url = <<>>
              /\ disk[p].content.doc.author = b

\* what sets hasChanges apart from repository, bugs and homepage
OtherChange(p) ==
    LET doc == orig[p].content.doc
    IN  \/ given(userInputs, PACKAGE_NAME)
        \/ /\ doc.author.t = "obj"
           /\ \/ given(userInputs, AUTHOR_NAME) /\ Exists(doc.author.name)
              \/ given(userInputs, USERNAME) /\ Exists(doc.author.url)
        \/ doc.author.t = "str" /\ doc.author.s # <<>> /\ given(userInputs, AUTHOR_NAME)
        \/ doc.keywords.t = "arr" /\ given(userInputs, PROJECT_NAME)
        \/ \E k \in 1..Len(userInputs) : contentIncludes(orig[p].content, userInputs[k].key)

\* a repository or bugs field before (a) and after (b) the special handling
UrlRule(a, b, suffix) ==
    IF given(userInputs, USERNAME) /\ given(userInputs, PROJECT_NAME)
    THEN /\ (a.t = "str" /\ a.s # <<>>) => b = StrV(RepoUrl \o suffix)
         /\ (a.t = "obj" /\ Exists(a.url)) =>
               /\ b.t = "obj"
               /\ b.url = <<RepoUrl \o suffix>>
               /\ b.name = a.name
               /\ b.other = a.other
         /\ (a.t = "obj" /\ ~Exists(a.url)) => b = a
         /\ a.t = "absent" => b = a
    ELSE b = a

\* the three fields hold nothing the special handling overwrites
NoUrlChange(doc) ==
    \/ ~(given(userInputs, USERNAME) /\ given(userInputs, PROJECT_NAME))
    \/ /\ doc.repository.t = "absent" \/ (doc.repository.t = "obj" /\ ~Exists(doc.repository.url))
       /\ doc.bugs.t = "absent" \/ (doc.bugs.t = "obj" /\ ~Exists(doc.bugs.url))
       /\ doc.homepage.t = "absent"

\* C15: with USERNAME and PROJECT_NAME given, a string repository, bugs or
\* homepage becomes the GitHub URL of the project (bugs with /issues), an
\* object repository or bugs with a url has its url overwritten and the
\* rest kept, an object without url is left as it is and sets no change;
\* with one of the two inputs missing the three fields are left as they are
C15_UrlFields ==
    pc = "processed" =>
        \A p \in ParsedPackages :
            LET doc == orig[p].content.doc
                new == StructuredDoc(p)
            IN  /\ UrlRule(doc.repository, new.repository, <<>>)
                /\ UrlRule(doc.bugs, new.bugs, <<"/issues">>)
                /\ new.homepage =
                      IF /\ given(userInputs, USERNAME) /\ given(userInputs, PROJECT_NAME)
                         /\ doc.homepage.t = "str" /\ doc.homepage.s # <<>>
                      THEN StrV(RepoUrl) ELSE doc.homepage
                /\ (NoUrlChange(doc) /\ ~OtherChange(p)) => ~WriteCalled(p)

C15_Witness ==
    /\ pc = "processed"
    /\ given(userInputs, USERNAME)
    /\ given(userInputs, PROJECT_NAME)
    /\ \E p \in ParsedPackages :
          LET doc == orig[p].content.doc
              new == disk[p].content.doc
          IN  /\ doc.repository.t = "obj" /\ Exists(doc.repository.url)
              /\ new.repository.url = <<RepoUrl>>
              /\ new.repository.other = doc.repository.other
              /\ Exists(doc.repository.other)
              /\ doc.bugs.t = "obj" /\ ~Exists(doc.bugs.url)
              /\ new.bugs = doc.bugs
              /\ doc.homepage.t = "str"
              /\ new.homepage = StrV(RepoUrl)

Entries(s) == { s[i] : i \in 1..Len(s) }

\* the first position of an entry in a list
FirstPos(s, e) == CHOOSE i \in 1..Len(s) : s[i] = e /\ \A j \in 1..(i - 1) : s[j] # e

GeneratedTags ==
    << <<"typescript">>, <<"javascript">>,
       toLowerCase(valueOf(userInputs, PROJECT_NAME)), <<"utility">> >>

\* the keywords before (a) and after (b) the special handling: b holds the
\* entries of a and the generated tags, each once, the entries of a first,
\* all in the order of their first occurrence
KeywordsRule(a, b) ==
    IF a.t = "arr" /\ given(userInputs, PROJECT_NAME)
    THEN LET all == a.items \o GeneratedTags
         IN  /\ b.t = "arr"
             /\ Entries(b.items) = Entries(all)
             /\ \A i, j \in 1..Len(b.items) :
                   i < j => FirstPos(all, b.items[i]) < FirstPos(all, b.items[j])
             /\ (a.items = << <<"x">> >> /\ valueOf(userInputs, PROJECT_NAME) = <<"App">>)
                   => Len(b.items) = 5
    ELSE b = a

\* C16: the special handling keeps every entry of a keywords list, in its
\* order, appends those of typescript, javascript, the lower-cased
\* PROJECT_NAME and utility that the list did not hold, in that order, and
\* no entry is there twice
C16_KeywordsMerged ==
    pc = "processed" =>
        \A p \in ParsedPackages :
            KeywordsRule(orig[p].content.doc.keywords, StructuredDoc(p).keywords)

C16_Witness ==
    /\ pc = "processed"
    /\ run = 1
    /\ \E p \in ParsedPackages :
          /\ orig[p].content.doc.keywords.items
                = << <<"utility">>, <<"x">>, <<"app">>, <<"x">> >>
          /\ valueOf(userInputs, PROJECT_NAME) = <<"App">>
          /\ disk[p].content.doc.keywords.items
                = << <<"utility">>, <<"x">>, <<"app">>, <<"typescript">>, <<"javascript">> >>

\* the package.json files of the run that are read and do not parse
UnparsedPackages ==
    { p \in FileSet : isPackageJson(p) /\ ~orig[p].content.json /\ orig[p].readable }

KeyOccurs(content) ==
    \E k \in 1..Len(userInputs) : contentIncludes(content, userInputs[k].key)

\* C17: on a package.json that does not parse processFile throws nothing,
\* warns that it could not parse, updates no field, replaces the keys in
\* the content as read and writes the file exactly when a key occurred
C17_UnparsedFallsBack ==
    /\ pc # "threw"
    /\ pc = "processed" =>
          \A p \in UnparsedPackages :
              /\ \E i \in 1..Len(reads) :
                    /\ reads[i].pass = "rewrite" /\ reads[i].path = p
                    /\ reads[i].parseWarned
                    /\ reads[i].warned = (KeyOccurs(orig[p].content) /\ ~orig[p].writable)
              /\ WriteCalled(p) = KeyOccurs(orig[p].content)
              /\ \A w \in 1..Len(writes) :
                    writes[w].path = p =>
                        /\ writes[w].structured = orig[p].content
                        /\ ~writes[w].after.json
                        /\ writes[w].after.text
                              = replaceKeys(orig[p].content, FALSE, userInputs, 1).content.text
                        /\ writes[w].ok = orig[p].writable
              /\ disk[p].content =
                    IF KeyOccurs(orig[p].content) /\ orig[p].writable
                    THEN replaceKeys(orig[p].content, FALSE, userInputs, 1).content
                    ELSE orig[p].content

C17_Witness ==
    /\ pc = "processed"
    /\ \E p \in UnparsedPackages :
          /\ orig[p].content.text = <<"{", "PROJECT_NAME">>
          /\ disk[p].content.text = <<"{", "App">>
          /\ \E i \in 1..Len(reads) : reads[i].path = p /\ reads[i].parseWarned
          /\ Written(p)
          /\ filesProcessed >= 1
          /\ Len(files) >= 2

\* the extension of a path: what follows the last "." of its last name,
\* the "." included, lower-cased; empty when the name has no "." after its
\* first character
LowerExtension(filePath) ==
    LET name == filePath[Len(filePath)]
        dots == { i \in 2..Len(name) : name[i] = "." }
    IN  IF dots = {} THEN <<>>
        ELSE LET d == CHOOSE i \in dots : \A j \in dots : j <= i
             IN  [i \in 1..(Len(name) - d + 1) |-> LowerAtom(name[d + i - 1])]

\* a "." and one more fragment that together spell a listed extension
Listed(ext) ==
    /\ Len(ext) = 2
    /\ ext[1] = "."
    /\ \E e \in {"png", "jpg", "jpeg", "gif", "ico", "svg", "pdf", "zip", "tar", "gz",
                   "7z", "exe", "dll", "so", "dylib", "woff", "woff2", "ttf", "otf"} :
          ext[2] = e

\* both passes took the file for a text file: they called readFile on it
TakenAsText(p) == ReadIn("scan", p) /\ ReadIn("rewrite", p)

TakenAsBinary(p) == ~ReadIn("scan", p) /\ ~ReadIn("rewrite", p)

\* C20: a file is taken as binary exactly when its lower-cased extension is
\* in the list, whatever it holds: files whose extensions differ in letter
\* case only are taken alike, files with another or no extension as text
C20_BinaryByExtension ==
    pc = "processed" =>
        /\ \A p \in FileSet :
              IF Listed(LowerExtension(p)) THEN TakenAsBinary(p) ELSE TakenAsText(p)
        /\ \A p, q \in FileSet :
              LowerExtension(p) = LowerExtension(q) => (TakenAsBinary(p) <=> TakenAsBinary(q))

C20_Witness ==
    /\ pc = "processed"
    /\ \E p, q \in FileSet :
          /\ p # q
          /\ Last(Last(p)) = "PNG"
          /\ Last(Last(q)) = "png"
          /\ TakenAsBinary(p)
          /\ TakenAsBinary(q)
          /\ disk[p].content # disk[q].content

\* the paths of the directories of a tree
RECURSIVE DirPaths(_, _, _)
DirPaths(currentDir, items, i) ==
    IF i > Len(items) THEN {}
    ELSE LET item == items[i]
             fullPath == Append(currentDir, item.name)
         IN  (IF item.isDir THEN {fullPath} \cup DirPaths(fullPath, item.kids, 1) ELSE {})
             \cup DirPaths(currentDir, items, i + 1)

\* a directory above the path, below the root, is named .git or node_modules
UnderExcluded(path) ==
    \E i \in (Len(targetDir) + 1)..(Len(path) - 1) :
        path[i] = <<"node_modules">> \/ path[i] = <<".", "git">>

NoneTwice(s) == \A i, j \in 1..Len(s) : i # j => s[i] # s[j]

\* C18: getAllFiles returns the files of the tree that are under no
\* directory named .git or node_modules, each once, no directory, at any
\* depth, a file named .git or node_modules among them
C18_FilesListed ==
    pc = "listed" =>
        /\ NoneTwice(files)
        /\ { files[i] : i \in 1..Len(files) }
              = { p \in allPaths(targetDir, tree, 1) : ~UnderExcluded(p) }
        /\ \A i \in 1..Len(files) : files[i] \notin DirPaths(targetDir, tree, 1)
        /\ files = getAllFiles(targetDir, tree)

C18_Witness ==
    /\ pc = "listed"
    /\ \E i, j, k \in 1..Len(files) :
          /\ Len(files[i]) = 4
          /\ Last(files[j]) = <<".", "git">>
          /\ Last(files[k]) = <<"node_modules">>
    /\ \E p \in allPaths(targetDir, tree, 1) :
          UnderExcluded(p) /\ \A i \in 1..Len(files) : files[i] # p

\* no directory was scanned twice, none outside the tree, none excluded
ScannedOnce ==
    /\ NoneTwice(scanned)
    /\ \A i \in 1..Len(scanned) :
          /\ scanned[i] \in {targetDir} \cup DirPaths(targetDir, tree, 1)
          /\ ~UnderExcluded(Append(scanned[i], <<"x">>))

\* C19: getAllFiles returns on every tree, and scan is called on no
\* directory twice
C19_ScanTerminates == <>(pc = "listed") /\ []ScannedOnce

C19_Witness ==
    /\ pc = "listed"
    /\ Len(scanned) >= 4
    /\ \E i \in 1..Len(scanned) : Len(scanned[i]) = 3
    /\ Cardinality(DirPaths(targetDir, tree, 1)) > Len(scanned)

\* the keys of the placeholders that the map has no entry for
MissingKeys(placeholders, inputs) ==
    { i \in 1..Len(placeholders) : \A j \in 1..Len(inputs) : inputs[j].key # placeholders[i].key }

\* C21: the map collectInputs returns has a value for every placeholder key
\* and a non-empty trimmed value for every required key, and a cancelled
\* question, required or optional, yields null and no map
C21_NullOrComplete ==
    /\ pc = "suggestPackageName" =>
          /\ MissingKeys(config.placeholders, userInputs) = {}
          /\ \A i \in 1..Len(config.placeholders), j \in 1..Len(userInputs) :
                config.placeholders[i].required /\ userInputs[j].key = config.placeholders[i].key
                    => trim(userInputs[j].value) # <<>>
    /\ "cancel:inputs" \in events => pc = "exited" /\ userInputs = <<>>

\* the delimited token of a key, as the README documents it
Token(key) == <<"{{">> \o key \o <<"}}">>

\* the tokens of the keys of the map in the content
RECURSIVE TokensIn(_, _)
TokensIn(content, k) ==
    IF k > Len(userInputs) THEN 0
    ELSE occurrences(content, Token(userInputs[k].key)) + TokensIn(content, k + 1)

\* C22: in the content processFile writes no token {{KEY}} of a key of the
\* map is left, and the braces of every such token of the content read are
\* gone with it
C22_TokenReplaced ==
    \A w \in 1..Len(writes) :
        /\ TokensIn(writes[w].after, 1) = 0
        /\ occurrences(writes[w].after, <<"{{">>)
              <= occurrences(writes[w].before, <<"{{">>) - TokensIn(writes[w].before, 1)

\* the configured templates the argument names: by name, by repo, or by
\* the repo under phucbm/ for an argument without a slash
NamedBy(templates, arg) ==
    { t \in { templates[i] : i \in 1..Len(templates) } :
        \/ t.name = arg
        \/ t.repo = arg
        \/ (\A i \in 1..Len(arg) : arg[i] # "/") /\ t.repo = <<"phucbm", "/">> \o arg }

\* C23: with a template argument selectTemplate asks nothing and returns a
\* template: a configured one the argument names if there is one, else one
\* whose repo is the argument when it holds a slash, phucbm/<argument>
\* when it does not
C23_TemplateByArgument ==
    "selectTemplate" \in called /\ templateArgOf(args) # <<>> =>
        LET arg == templateArgOf(args)
        IN  /\ events \cap {"prompt:template", "cancel:template"} = {}
            /\ Len(selectedTemplate) = 1
            /\ IF NamedBy(config.templates, arg) # {}
               THEN selectedTemplate[1] \in NamedBy(config.templates, arg)
               ELSE selectedTemplate[1].repo =
                        IF \E i \in 1..Len(arg) : arg[i] = "/" THEN arg
                        ELSE <<"phucbm", "/">> \o arg

\* a configured template was found through the phucbm/ prefix
C23_Witness ==
    /\ "selectTemplate" \in called
    /\ templateArgOf(args) = <<"npm-utils-template">>
    /\ Len(selectedTemplate) = 1
    /\ selectedTemplate[1].name = <<"utils">>
    /\ pc = "validateTemplate"

\* the files whose content on disk is not what it was when processFiles
\* started
ModifiedFiles == { p \in FileSet : disk[p].content # orig[p].content }

\* the first pass had no occurrence of any key to find
FoundNone ==
    \A k \in 1..Len(userInputs) : OccurrencesAtStart(userInputs[k].key, 1) = 0

\* C24: the final message tells that there was nothing to replace, without
\* a count, when the scan found no occurrence of any key, and otherwise
\* gives the number of files modified
C24_FinalMessage ==
    pc = "processed" =>
        IF FoundNone
        THEN message.text = "Template files copied"
        ELSE /\ message.text = "files processed"
             /\ message.count = Cardinality(ModifiedFiles)

\* C25: when the target directory exists (without --here) or the current
\* directory holds an entry that is not hidden, not node_modules and not a
\* lock file (with --here), the overwrite confirmation is asked before the
\* download, its default answer is no, and the download happens only after
\* the answer yes
C25_ConfirmBeforeOverwrite ==
    /\ events \cap {"target:exists", "cwd:src"} # {} =>
          /\ "promptForReplacement" \in called
          /\ "downloadTemplate" \in called => "confirmed:overwrite" \in events
    /\ "promptForReplacement" \in called /\ "confirmed:overwrite" \notin events =>
          /\ "downloadTemplate" \notin called
          /\ pc = "exited"
    /\ "answer:default" \in events => "confirmed:overwrite" \notin events

\* the current directory holds src, the user has confirmed, the template
\* is downloaded
C25_Witness ==
    /\ "cwd:src" \in events
    /\ "confirmed:overwrite" \in events
    /\ "downloadTemplate" \in called
    /\ isHereFlagOf(args)

\* s from position i on, with every occurrence of a key of the map
\* replaced by the value of the key
RECURSIVE Substituted(_, _)
Substituted(s, i) ==
    IF i > Len(s) THEN <<>>
    ELSE IF \E k \in 1..Len(userInputs) : MatchAt(s, userInputs[k].key, i)
    THEN LET k == CHOOSE k \in 1..Len(userInputs) : MatchAt(s, userInputs[k].key, i)
         IN  userInputs[k].value \o Substituted(s, i + Len(userInputs[k].key))
    ELSE <<s[i]>> \o Substituted(s, i + 1)

SubstitutedAll(ss) == [i \in 1..Len(ss) |-> Substituted(ss[i], 1)]

\* C26: the content written for a package.json that parses is the document
\* the structured rewrite left, with every occurrence of a key replaced by
\* its value in the fields the rewrite does not handle (description, the
\* other fields of author) and with name, author name and url, repository,
\* bugs, homepage and keywords as the structured rewrite set them
C26_GenericAfterStructured ==
    \A w \in PackageWrites :
        LET s == writes[w].structured.doc
            a == writes[w].after.doc
        IN  /\ writes[w].after.json
            /\ a.description.s = Substituted(s.description.s, 1)
            /\ a.author.other = SubstitutedAll(s.author.other)
            /\ \A f \in {"name", "repository", "bugs", "homepage", "keywords"} : a[f] = s[f]
            /\ a.author.name = s.author.name
            /\ a.author.url = s.author.url

\* the files processFile has written with a content that is not the
\* content it read
ChangedByWrite ==
    { p \in FileSet :
        \E w \in 1..Len(writes) :
            writes[w].path = p /\ writes[w].ok /\ writes[w].after # writes[w].before }

\* C27: the counter of the second pass is the number of files processFile
\* wrote with a content different from the content it read; a file whose
\* write failed is not counted and no file is written or counted twice
C27_CounterIsModified ==
    pc \in {"rewrite", "processed"} =>
        /\ filesProcessed = Cardinality(ChangedByWrite)
        /\ \A v, w \in 1..Len(writes) : writes[v].path = writes[w].path => v = w

\* C28: the structured rewrite adds none of author, repository, bugs,
\* homepage and keywords to a document that had none, and leaves every
\* field other than name and these five as it was parsed
C28_NoFieldAdded ==
    \A p \in ParsedPackages :
        LET before == orig[p].content.doc
            after == StructuredDoc(p)
        IN  /\ \A f \in {"author", "repository", "bugs", "homepage", "keywords"} :
                  before[f].t = "absent" => after[f].t = "absent"
            /\ \A f \in DocFields \ {"name", "author", "repository", "bugs", "homepage",
                                     "keywords"} :
                  after[f] = before[f]

\* a document with a description and without author, repository, homepage
\* and keywords went through the rewrite with every input given
C28_Witness ==
    /\ pc = "processed"
    /\ given(userInputs, USERNAME) /\ given(userInputs, PROJECT_NAME)
    /\ given(userInputs, AUTHOR_NAME) /\ given(userInputs, PACKAGE_NAME)
    /\ \E w \in PackageWrites :
          /\ writes[w].ok
          /\ \A f \in {"author", "repository", "homepage", "keywords"} :
                writes[w].before.doc[f].t = "absent"
          /\ writes[w].before.doc.description.t = "str"
          /\ writes[w].before.doc.bugs.t = "str"
          /\ writes[w].structured.doc.bugs # writes[w].before.doc.bugs

====
